---- MODULE Spec2Model ----
(***************************************************************************)
(* BB84 quantum key distribution simulation (QKD_BB84_.py).                *)
(*                                                                         *)
(* A QuantumCircuit(1, 1) object is modelled as the sequence of the        *)
(* instructions appended to it ("x", "h", "barrier", "measure"); the       *)
(* objects live in a heap (a sequence, the index is the object identity)   *)
(* so that aliasing between the lists that hold them is visible.           *)
(* AerSimulator().run(qc, shots=1) executes the instructions from |0>.     *)
(* With only X, H and a computational-basis measurement the qubit stays,   *)
(* up to a global phase, in one of |0>, |1>, |+>, |->, written "Z0", "Z1", *)
(* "X0", "X1".  Bases are 0 (Z, rectilinear) and 1 (X, diagonal).          *)
(* Python slot i is index i + 1 here.  Rates and random draws of           *)
(* np.random.random() are in thousandths.                                  *)
(***************************************************************************)
EXTENDS Integers, Sequences, FiniteSets, TLC

\* Bound of the model: the number of qubit slots of a run.
MaxQubits == 2

\* Bound of the model: the longest argument sequence handed to the sifter
\* when it is exercised on its own.
MaxLen == 4

NUM_QUBITS == MaxQubits

num_iterations == 1

Bit == {0, 1}

\* Representatives of np.random.random() in [0, 1): one in each interval
\* cut out by the rates 0.075, 0.1 and 0.2.
DrawValues == {0, 80, 150, 500}

EveErrorRate == 100

BitSeqs(n) == [1..n -> Bit]

----------------------------------------------------------------------------
(* Gates and the simulator *)

\* Pauli-X: |0> <-> |1>, |+> -> |+>, |-> -> -|->.
PauliX(s) ==
    CASE s = "Z0" -> "Z1"
      [] s = "Z1" -> "Z0"
      [] s = "X0" -> "X0"
      [] s = "X1" -> "X1"

\* Hadamard: |0> <-> |+>, |1> <-> |->.
Hadamard(s) ==
    CASE s = "Z0" -> "X0"
      [] s = "Z1" -> "X1"
      [] s = "X0" -> "Z0"
      [] s = "X1" -> "Z1"

\* One instruction on a configuration [q: qubit state, c: classical bit];
\* the set of configurations it can lead to.
ApplyInstr(g, cfg) ==
    CASE g = "x" -> {[q |-> PauliX(cfg.q), c |-> cfg.c]}
      [] g = "h" -> {[q |-> Hadamard(cfg.q), c |-> cfg.c]}
      [] g = "barrier" -> {cfg}
      [] g = "measure" ->
            IF cfg.q = "Z0" THEN {[q |-> "Z0", c |-> 0]}
            ELSE IF cfg.q = "Z1" THEN {[q |-> "Z1", c |-> 1]}
            ELSE {[q |-> "Z0", c |-> 0], [q |-> "Z1", c |-> 1]}

RECURSIVE ExecFrom(_, _, _)
ExecFrom(circ, k, cfgs) ==
    IF k > Len(circ) THEN cfgs
    ELSE ExecFrom(circ, k + 1,
                  UNION {ApplyInstr(circ[k], cfg) : cfg \in cfgs})

\* All configurations a single shot of the circuit can end in.
Exec(circ) == ExecFrom(circ, 1, {[q |-> "Z0", c |-> 0]})

\* result.get_memory()[0] of a single shot: the possible classical bits.
RunShot(circ) == {cfg.c : cfg \in Exec(circ)}

NumMeasures(circ) == Cardinality({k \in 1..Len(circ) : circ[k] = "measure"})

----------------------------------------------------------------------------
(* encode_message *)

\* Mutant of EncodeCircuit: X applied after H for bit 1 in the X-basis.
EncodeCircuit_XAfterH(bit, basis) ==
    (IF basis = 0
     THEN (IF bit = 1 THEN <<"x">> ELSE <<>>)
     ELSE (IF bit = 0 THEN <<"h">> ELSE <<"h", "x">>))
    \o <<"barrier">>

\* The instructions encode_message puts on the circuit of one slot.
EncodeCircuit(bit, basis) ==
    (IF basis = 0
     THEN (IF bit = 1 THEN <<"x">> ELSE <<>>)
     ELSE (IF bit = 0 THEN <<"h">> ELSE <<"x", "h">>))
    \o <<"barrier">>

RECURSIVE EncodeLoop(_, _, _, _, _)
EncodeLoop(hp, msg, bits, basis, i) ==
    IF i > NUM_QUBITS THEN [ok |-> TRUE, heap |-> hp, message |-> msg]
    ELSE IF i > Len(basis) \/ i > Len(bits)
         THEN [ok |-> FALSE, heap |-> hp, message |-> msg]
         ELSE EncodeLoop(Append(hp, EncodeCircuit(bits[i], basis[i])),
                         Append(msg, Len(hp) + 1), bits, basis, i + 1)

encode_message(hp, bits, basis) == EncodeLoop(hp, <<>>, bits, basis, 1)

----------------------------------------------------------------------------
(* simulate_quantum_channel *)

\* One pass of the loop body: the bit-flip gate is appended to the circuit
\* object itself when the draw is below the rate.
ChannelFlip(circ, draw, error_rate) ==
    IF draw < error_rate THEN Append(circ, "x") ELSE circ

RECURSIVE ChannelLoop(_, _, _, _, _, _)
ChannelLoop(hp, message, noisy, error_rate, draws, k) ==
    IF k > Len(message) THEN [heap |-> hp, message |-> noisy]
    ELSE LET qc == message[k]
         IN  ChannelLoop([hp EXCEPT ![qc] = ChannelFlip(hp[qc], draws[k], error_rate)],
                         message, Append(noisy, qc), error_rate, draws, k + 1)

\* draws[k] is the value np.random.random() returns in pass k.
simulate_quantum_channel(hp, message, error_rate, draws) ==
    ChannelLoop(hp, message, <<>>, error_rate, draws, 1)

----------------------------------------------------------------------------
(* measure_message *)

\* Mutants of MeasureInstrs: the basis change left out; the basis change
\* applied in either basis.
MeasureInstrs_NoH(basis) == <<"measure">>

MeasureInstrs_AlwaysH(basis) == <<"h", "measure">>

\* The instructions a measurement in the given basis appends.
MeasureInstrs(basis) ==
    (IF basis = 1 THEN <<"h">> ELSE <<>>) \o <<"measure">>

RECURSIVE MeasureLoop(_, _, _, _, _, _)
MeasureLoop(hp, message, basis, outs, acc, q) ==
    IF q > NUM_QUBITS
    THEN [ok |-> TRUE, possible |-> TRUE, heap |-> hp, measurements |-> acc]
    ELSE IF q > Len(basis) \/ q > Len(message)
    THEN [ok |-> FALSE, possible |-> TRUE, heap |-> hp, measurements |-> acc]
    ELSE LET id   == message[q]
             circ == hp[id] \o MeasureInstrs(basis[q])
         IN  IF outs[q] \in RunShot(circ)
             THEN MeasureLoop([hp EXCEPT ![id] = circ], message, basis, outs,
                              Append(acc, outs[q]), q + 1)
             ELSE [ok |-> TRUE, possible |-> FALSE, heap |-> hp,
                   measurements |-> acc]

\* outs[q] is the bit the simulator reports for slot q; possible tells
\* whether the simulator can report these bits.
measure_message(hp, message, basis, outs) ==
    MeasureLoop(hp, message, basis, outs, <<>>, 1)

----------------------------------------------------------------------------
(* remove_garbage and check_keys *)

IndexSeq(n) == [q \in 1..n |-> q]

\* Mutant of MatchAt: keeps the slots where the bases differ.
MatchAt_Differ(a_basis, b_basis, q) == a_basis[q] # b_basis[q]

\* The filter of the list comprehension.
MatchAt(a_basis, b_basis, q) == a_basis[q] = b_basis[q]

\* ok is FALSE when an index of range(NUM_QUBITS) is out of range for one
\* of the arguments (IndexError).
remove_garbage(a_basis, b_basis, bits) ==
    IF NUM_QUBITS > Len(a_basis) \/ NUM_QUBITS > Len(b_basis)
    THEN [ok |-> FALSE, val |-> <<>>]
    ELSE LET Keep(q) == MatchAt(a_basis, b_basis, q)
             matching_positions == SelectSeq(IndexSeq(NUM_QUBITS), Keep)
         IN  IF \E k \in 1..Len(matching_positions) :
                    matching_positions[k] > Len(bits)
             THEN [ok |-> FALSE, val |-> <<>>]
             ELSE [ok |-> TRUE,
                   val |-> [k \in 1..Len(matching_positions) |->
                               bits[matching_positions[k]]]]

\* The branch check_keys takes: list equality of the two keys.
check_keys(key1, key2) == IF key1 = key2 THEN "same" ELSE "different"

----------------------------------------------------------------------------
(* simulate_eavesdropping_detailed *)

\* Mutant of EveProbe: no copy, Eve works on the object itself.
EveProbe_NoCopy(hp, id) == [heap |-> hp, id |-> id]

\* copy.deepcopy(message[i]): a new object with the same instructions.
EveProbe(hp, id) == [heap |-> Append(hp, hp[id]), id |-> Len(hp) + 1]

\* Mutant of ReencodeCircuit: the X-basis branch leaves out the X gate.
ReencodeCircuit_NoX(eve_measurement, basis) ==
    IF basis = 1
    THEN <<"h">>
    ELSE (IF eve_measurement = 1 THEN <<"x">> ELSE <<>>)

\* Mutant of ReencodeCircuit: Eve re-encodes in the Z-basis whatever her
\* basis was.
ReencodeCircuit_ZOnly(eve_measurement, basis) ==
    IF eve_measurement = 1 THEN <<"x">> ELSE <<>>

\* The instructions Eve puts on the fresh circuit qc_reencode.
ReencodeCircuit(eve_measurement, basis) ==
    IF basis = 1
    THEN (IF eve_measurement = 1 THEN <<"x">> ELSE <<>>) \o <<"h">>
    ELSE (IF eve_measurement = 1 THEN <<"x">> ELSE <<>>)

\* Eve's own bit-flip error on the re-encoded circuit.
EveFlip(circ, draw, error_rate) ==
    IF draw < error_rate THEN Append(circ, "x") ELSE circ

\* Mutant of EveForward: the original circuit stays in the list.
EveForward_Original(message, i, new_id) == message

\* message[i] = qc_reencode
EveForward(message, i, new_id) == [message EXCEPT ![i] = new_id]

\* Mutant of EveLoop: Eve measures the circuit of the list itself and
\* forwards it, with her bit flip, instead of a fresh one.
RECURSIVE EveLoop_InPlace(_, _, _, _, _, _, _, _, _)
EveLoop_InPlace(hp, message, eavesdropper_basis, alice_basis, error_rate, outs, draws, acc, i) ==
    IF i > Len(message)
    THEN [ok |-> TRUE, possible |-> TRUE, heap |-> hp, message |-> message,
          results |-> acc]
    ELSE IF i > Len(alice_basis) \/ i > Len(eavesdropper_basis)
    THEN [ok |-> FALSE, possible |-> TRUE, heap |-> hp, message |-> message,
          results |-> acc]
    ELSE LET qc == hp[message[i]] \o MeasureInstrs(eavesdropper_basis[i])
             back == IF eavesdropper_basis[i] = 1 THEN <<"h">> ELSE <<>>
             hp1 == [hp EXCEPT ![message[i]] =
                        EveFlip(qc \o back, draws[i], error_rate)]
         IN  IF outs[i] \in RunShot(qc)
             THEN EveLoop_InPlace(hp1, message, eavesdropper_basis,
                                  alice_basis, error_rate, outs, draws,
                                  Append(acc, outs[i]), i + 1)
             ELSE [ok |-> TRUE, possible |-> FALSE, heap |-> hp,
                   message |-> message, results |-> acc]

RECURSIVE EveLoop(_, _, _, _, _, _, _, _, _)
EveLoop(hp, message, eavesdropper_basis, alice_basis, error_rate, outs, draws, acc, i) ==
    IF i > Len(message)
    THEN [ok |-> TRUE, possible |-> TRUE, heap |-> hp, message |-> message,
          results |-> acc]
    ELSE IF i > Len(alice_basis) \/ i > Len(eavesdropper_basis)
    THEN [ok |-> FALSE, possible |-> TRUE, heap |-> hp, message |-> message,
          results |-> acc]
    ELSE LET probe == EveProbe(hp, message[i])
             qc    == probe.heap[probe.id] \o MeasureInstrs(eavesdropper_basis[i])
             hp1   == [probe.heap EXCEPT ![probe.id] = qc]
             eve_measurement == outs[i]
             qc_reencode ==
                 EveFlip(ReencodeCircuit(eve_measurement, eavesdropper_basis[i]),
                         draws[i], error_rate)
             hp2   == Append(hp1, qc_reencode)
         IN  IF eve_measurement \in RunShot(qc)
             THEN EveLoop(hp2, EveForward(message, i, Len(hp2)),
                          eavesdropper_basis, alice_basis, error_rate, outs,
                          draws, Append(acc, eve_measurement), i + 1)
             ELSE [ok |-> TRUE, possible |-> FALSE, heap |-> hp,
                   message |-> message, results |-> acc]

\* outs[i] is the bit the simulator reports to Eve for slot i, draws[i] the
\* value of np.random.random() in pass i.  alice_basis is only printed.
simulate_eavesdropping_detailed(hp, message, eavesdropper_basis, alice_basis, error_rate, outs, draws) ==
    EveLoop(hp, message, eavesdropper_basis, alice_basis, error_rate, outs,
            draws, <<>>, 1)

----------------------------------------------------------------------------
(* The program state *)

VARIABLES
    pc,                  \* position of main
    rng,                 \* numpy's global generator: "unseeded", or the
                         \* seed it was given and its state
    choice,              \* the last answer to the menu prompt
    error_rate,          \* the rate of the run in progress (thousandths)
    i,                   \* the run counter of the iteration loop
    alice_bits, alice_basis,
    heap,                \* the QuantumCircuit objects of the run
    message,             \* list of object identities, one per slot
    flips,               \* per slot: the noise draw was below the rate
    eavesdropper_basis, eve_measurements,
    bob_basis, bob_results,
    alice_key, bob_key,
    verdict              \* the branch check_keys took

vars == <<pc, rng, choice, error_rate, i, alice_bits, alice_basis, heap, message,
          flips, eavesdropper_basis, eve_measurements, bob_basis, bob_results,
          alice_key, bob_key, verdict>>

runVars == <<alice_bits, alice_basis, heap, message, flips,
             eavesdropper_basis, eve_measurements, bob_basis, bob_results,
             alice_key, bob_key, verdict>>

Choices == {"1", "2", "3", "4", "5", "other"}

Cleared ==
    /\ alice_bits = <<>> /\ alice_basis = <<>>
    /\ heap = <<>> /\ message = <<>> /\ flips = <<>>
    /\ eavesdropper_basis = <<>> /\ eve_measurements = <<>>
    /\ bob_basis = <<>> /\ bob_results = <<>>
    /\ alice_key = <<>> /\ bob_key = <<>>
    /\ verdict = "none"

Init ==
    /\ pc = "prompt"
    /\ rng = "unseeded"
    /\ choice = "none"
    /\ error_rate = 0
    /\ i = 0
    /\ Cleared

\* Mutant of Choose: the rates of the choices "2" and "3" are exchanged.
Choose_SwappedRates ==
    /\ pc = "prompt"
    /\ \E c \in Choices :
        /\ choice' = c
        /\ CASE c = "1" -> pc' = "qc_alice_bits" /\ error_rate' = 0 /\ i' = 1
             [] c = "2" -> pc' = "qc_alice_bits" /\ error_rate' = 200 /\ i' = 1
             [] c = "3" -> pc' = "qc_alice_bits" /\ error_rate' = 75 /\ i' = 1
             [] c = "4" -> pc' = "ev_alice_bits" /\ error_rate' = EveErrorRate
                           /\ i' = 1
             [] c = "5" -> pc' = "exit" /\ UNCHANGED <<error_rate, i>>
             [] OTHER   -> pc' = "prompt" /\ UNCHANGED <<error_rate, i>>
    /\ UNCHANGED <<rng, runVars>>

\* input(...) and the if/elif chain of the menu loop.
Choose ==
    /\ pc = "prompt"
    /\ \E c \in Choices :
        /\ choice' = c
        /\ CASE c = "1" -> pc' = "qc_alice_bits" /\ error_rate' = 0 /\ i' = 1
             [] c = "2" -> pc' = "qc_alice_bits" /\ error_rate' = 75 /\ i' = 1
             [] c = "3" -> pc' = "qc_alice_bits" /\ error_rate' = 200 /\ i' = 1
             [] c = "4" -> pc' = "ev_alice_bits" /\ error_rate' = EveErrorRate
                           /\ i' = 1
             [] c = "5" -> pc' = "exit" /\ UNCHANGED <<error_rate, i>>
             [] OTHER   -> pc' = "prompt" /\ UNCHANGED <<error_rate, i>>
    /\ UNCHANGED <<rng, runVars>>

\* generate_bits(NUM_QUBITS) assigned to alice_bits
GenAliceBits(to) ==
    /\ \E bits \in BitSeqs(NUM_QUBITS) : alice_bits' = bits
    /\ pc' = to
    /\ UNCHANGED <<rng, choice, error_rate, i, alice_basis, heap, message, flips,
                   eavesdropper_basis, eve_measurements, bob_basis,
                   bob_results, alice_key, bob_key, verdict>>

GenAliceBasis(to) ==
    /\ \E basis \in BitSeqs(NUM_QUBITS) : alice_basis' = basis
    /\ pc' = to
    /\ UNCHANGED <<rng, choice, error_rate, i, alice_bits, heap, message, flips,
                   eavesdropper_basis, eve_measurements, bob_basis,
                   bob_results, alice_key, bob_key, verdict>>

Encode(to) ==
    /\ \E r \in {encode_message(heap, alice_bits, alice_basis)} :
           /\ heap' = r.heap
           /\ message' = r.message
           /\ pc' = IF r.ok THEN to ELSE "crashed"
    /\ UNCHANGED <<rng, choice, error_rate, i, alice_bits, alice_basis, flips,
                   eavesdropper_basis, eve_measurements, bob_basis,
                   bob_results, alice_key, bob_key, verdict>>

GenBobBasis(to) ==
    /\ \E basis \in BitSeqs(NUM_QUBITS) : bob_basis' = basis
    /\ pc' = to
    /\ UNCHANGED <<rng, choice, error_rate, i, alice_bits, alice_basis, heap,
                   message, flips, eavesdropper_basis, eve_measurements,
                   bob_results, alice_key, bob_key, verdict>>

Measure(to) ==
    /\ \E outs \in BitSeqs(NUM_QUBITS) :
        \E r \in {measure_message(heap, message, bob_basis, outs)} :
            /\ r.possible
            /\ heap' = r.heap
            /\ bob_results' = r.measurements
            /\ pc' = IF r.ok THEN to ELSE "crashed"
    /\ UNCHANGED <<rng, choice, error_rate, i, alice_bits, alice_basis, message,
                   flips, eavesdropper_basis, eve_measurements, bob_basis,
                   alice_key, bob_key, verdict>>

\* Mutant of SiftAndCheck: Bob's key is sifted with Bob's basis on both
\* sides.
SiftAndCheck_BobOwnMask(to) ==
    /\ \E ra \in {remove_garbage(alice_basis, bob_basis, alice_bits)},
          rb \in {remove_garbage(bob_basis, bob_basis, bob_results)} :
           /\ alice_key' = ra.val
           /\ bob_key' = IF ra.ok THEN rb.val ELSE <<>>
           /\ verdict' = IF ra.ok /\ rb.ok THEN check_keys(ra.val, rb.val)
                         ELSE "none"
           /\ pc' = IF ra.ok /\ rb.ok THEN to ELSE "crashed"
    /\ UNCHANGED <<rng, choice, error_rate, i, alice_bits, alice_basis, heap,
                   message, flips, eavesdropper_basis, eve_measurements,
                   bob_basis, bob_results>>

\* The two remove_garbage calls and check_keys that close a run.
SiftAndCheck(to) ==
    /\ \E ra \in {remove_garbage(alice_basis, bob_basis, alice_bits)},
          rb \in {remove_garbage(alice_basis, bob_basis, bob_results)} :
           /\ alice_key' = ra.val
           /\ bob_key' = IF ra.ok THEN rb.val ELSE <<>>
           /\ verdict' = IF ra.ok /\ rb.ok THEN check_keys(ra.val, rb.val)
                         ELSE "none"
           /\ pc' = IF ra.ok /\ rb.ok THEN to ELSE "crashed"
    /\ UNCHANGED <<rng, choice, error_rate, i, alice_bits, alice_basis, heap,
                   message, flips, eavesdropper_basis, eve_measurements,
                   bob_basis, bob_results>>

\* The end of one pass of the iteration loop: the objects of the run are
\* dropped; the next pass starts, or the loop is left.
EndRun(first, after) ==
    /\ IF i < num_iterations
       THEN i' = i + 1 /\ pc' = first
       ELSE i' = i /\ pc' = after
    /\ alice_bits' = <<>> /\ alice_basis' = <<>>
    /\ heap' = <<>> /\ message' = <<>> /\ flips' = <<>>
    /\ eavesdropper_basis' = <<>> /\ eve_measurements' = <<>>
    /\ bob_basis' = <<>> /\ bob_results' = <<>>
    /\ alice_key' = <<>> /\ bob_key' = <<>>
    /\ verdict' = "none"
    /\ UNCHANGED <<rng, choice, error_rate>>

(* quantum_communication *)

QC_AliceBits == pc = "qc_alice_bits" /\ GenAliceBits("qc_alice_basis")
QC_AliceBasis == pc = "qc_alice_basis" /\ GenAliceBasis("qc_encode")
QC_Encode == pc = "qc_encode" /\ Encode("qc_channel")

QC_Channel ==
    /\ pc = "qc_channel"
    /\ \E draws \in [1..Len(message) -> DrawValues] :
        \E r \in {simulate_quantum_channel(heap, message, error_rate, draws)} :
            /\ heap' = r.heap
            /\ message' = r.message
            /\ flips' = [k \in 1..Len(message) |-> draws[k] < error_rate]
    /\ pc' = "qc_bob_basis"
    /\ UNCHANGED <<rng, choice, error_rate, i, alice_bits, alice_basis,
                   eavesdropper_basis, eve_measurements, bob_basis,
                   bob_results, alice_key, bob_key, verdict>>

QC_BobBasis == pc = "qc_bob_basis" /\ GenBobBasis("qc_measure")
QC_Measure == pc = "qc_measure" /\ Measure("qc_sift")
QC_SiftAndCheck == pc = "qc_sift" /\ SiftAndCheck("qc_end")
QC_EndRun == pc = "qc_end" /\ EndRun("qc_alice_bits", "prompt")

(* the eavesdropping branch of main *)

EV_AliceBits == pc = "ev_alice_bits" /\ GenAliceBits("ev_alice_basis")
EV_AliceBasis == pc = "ev_alice_basis" /\ GenAliceBasis("ev_encode")
EV_Encode == pc = "ev_encode" /\ Encode("ev_eve_basis")

EV_EveBasis ==
    /\ pc = "ev_eve_basis"
    /\ \E basis \in BitSeqs(NUM_QUBITS) : eavesdropper_basis' = basis
    /\ pc' = "ev_eavesdrop"
    /\ UNCHANGED <<rng, choice, error_rate, i, alice_bits, alice_basis, heap,
                   message, flips, eve_measurements, bob_basis, bob_results,
                   alice_key, bob_key, verdict>>

\* simulate_eavesdropping, which only wraps simulate_eavesdropping_detailed
EV_Eavesdrop ==
    /\ pc = "ev_eavesdrop"
    /\ \E outs \in BitSeqs(Len(message)),
          draws \in [1..Len(message) -> DrawValues] :
        \E r \in {simulate_eavesdropping_detailed(heap, message,
                     eavesdropper_basis, alice_basis, EveErrorRate, outs, draws)} :
            /\ r.possible
            /\ heap' = r.heap
            /\ message' = r.message
            /\ eve_measurements' = r.results
            /\ flips' = [k \in 1..Len(message) |-> draws[k] < EveErrorRate]
            /\ pc' = IF r.ok THEN "ev_bob_basis" ELSE "crashed"
    /\ UNCHANGED <<rng, choice, error_rate, i, alice_bits, alice_basis,
                   eavesdropper_basis, bob_basis, bob_results, alice_key,
                   bob_key, verdict>>

EV_BobBasis == pc = "ev_bob_basis" /\ GenBobBasis("ev_measure")
EV_Measure == pc = "ev_measure" /\ Measure("ev_sift")
EV_SiftAndCheck == pc = "ev_sift" /\ SiftAndCheck("ev_end")
EV_EndRun == pc = "ev_end" /\ EndRun("ev_alice_bits", "prompt")

Next ==
    \/ Choose
    \/ QC_AliceBits \/ QC_AliceBasis \/ QC_Encode \/ QC_Channel
    \/ QC_BobBasis \/ QC_Measure \/ QC_SiftAndCheck \/ QC_EndRun
    \/ EV_AliceBits \/ EV_AliceBasis \/ EV_Encode \/ EV_EveBasis
    \/ EV_Eavesdrop \/ EV_BobBasis \/ EV_Measure \/ EV_SiftAndCheck
    \/ EV_EndRun

Spec == Init /\ [][Next]_vars

----------------------------------------------------------------------------
(* Properties *)

Slots == 1..NUM_QUBITS

\* The plain run has measured / the eavesdropping run has measured.
QCMeasured == pc \in {"qc_sift", "qc_end"}
EVMeasured == pc \in {"ev_sift", "ev_end"}

\* The bit vectors the simulator can report to measure_message.
PossibleResults(hp, msg, basis) ==
    {outs \in BitSeqs(NUM_QUBITS) : measure_message(hp, msg, basis, outs).possible}

\* Within the set PR of bit vectors the simulator can report, slot q can
\* come out as 0 and as 1, whatever the other slots come out as.
BothOutcomes(PR, q) ==
    /\ PR # {}
    /\ \A outs \in PR : \A b \in Bit : [outs EXCEPT ![q] = b] \in PR

\* C1: a plain run with error rate 0 ends with Alice's sifted key equal to
\* Bob's sifted key, element for element, and check_keys takes the
\* "keys are the same" branch.
C1_NoErrorRoundTrip ==
    (pc = "qc_end" /\ error_rate = 0) =>
        /\ Len(alice_key) = Len(bob_key)
        /\ \A k \in 1..Len(alice_key) : alice_key[k] = bob_key[k]
        /\ verdict = "same"

C1_Witness ==
    /\ pc = "qc_end" /\ error_rate = 0 /\ verdict = "same"
    /\ \E q \in Slots : alice_basis[q] = 1 /\ bob_basis[q] = 1
                        /\ alice_bits[q] = 1
    /\ \E q \in Slots : alice_basis[q] # bob_basis[q]

\* C2: a qubit encoded for (b, B) and not flipped by the channel gives b,
\* and nothing else, when it is measured in basis B.
C2_MatchingBasisFidelity ==
    /\ pc \in {"qc_bob_basis", "qc_measure"} =>
          \A q \in Slots :
              ~flips[q] =>
                  RunShot(heap[message[q]] \o MeasureInstrs(alice_basis[q]))
                      = {alice_bits[q]}
    /\ QCMeasured =>
          \A q \in Slots :
              (~flips[q] /\ bob_basis[q] = alice_basis[q]) =>
                  bob_results[q] = alice_bits[q]

C2_Witness ==
    /\ pc = "qc_sift" /\ error_rate > 0
    /\ \E q \in Slots : /\ ~flips[q]
                        /\ alice_basis[q] = 1 /\ bob_basis[q] = 1
                        /\ alice_bits[q] = 1 /\ bob_results[q] = 1

\* C3: in a plain run, a slot that Bob measures in a basis other than the
\* one it was encoded in can come out as 0 and as 1, whatever bit was
\* encoded and whatever the other slots come out as.
C3_MismatchedBasisBothOutcomes ==
    pc = "qc_measure" =>
        LET PR == PossibleResults(heap, message, bob_basis)
        IN  \A q \in Slots :
                bob_basis[q] # alice_basis[q] => BothOutcomes(PR, q)

C3_Witness ==
    /\ pc = "qc_sift"
    /\ \E q, r \in Slots :
          /\ q # r
          /\ alice_bits[q] = alice_bits[r] /\ alice_basis[q] = alice_basis[r]
          /\ ~flips[q] /\ ~flips[r]
          /\ bob_basis[q] # alice_basis[q] /\ bob_basis[r] # alice_basis[r]
          /\ bob_results[q] = 0 /\ bob_results[r] = 1

\* C4: a slot whose noise draw fell below the error rate, measured in the
\* basis it was encoded in, gives the complement of the encoded bit: for
\* the channel's flip (encoded by Alice) and for Eve's flip (encoded by
\* Eve from her own result), in either basis.
C4_FlipComplements ==
    /\ QCMeasured =>
          \A q \in Slots :
              (flips[q] /\ bob_basis[q] = alice_basis[q]) =>
                  bob_results[q] = 1 - alice_bits[q]
    /\ EVMeasured =>
          \A q \in Slots :
              (flips[q] /\ bob_basis[q] = eavesdropper_basis[q]) =>
                  bob_results[q] = 1 - eve_measurements[q]

\* The k-th smallest element of a set of slots.
KthOf(M, k) == CHOOSE q \in M : Cardinality({j \in M : j < q}) = k - 1

\* key is bits restricted to the slots where the bases agree, in slot order.
SiftedExactly(a_basis, b_basis, bits, key) ==
    LET M == {q \in 1..Len(bits) : a_basis[q] = b_basis[q]}
    IN  /\ Len(key) = Cardinality(M)
        /\ \A k \in 1..Len(key) : key[k] = bits[KthOf(M, k)]

\* C5: called with three sequences of the run length, remove_garbage
\* returns exactly the bits of the slots where the two bases agree, in
\* ascending slot order, and leaves its three arguments as they were.
C5_SiftExact ==
    /\ [](pc \in {"qc_end", "ev_end"} =>
             /\ SiftedExactly(alice_basis, bob_basis, alice_bits, alice_key)
             /\ SiftedExactly(alice_basis, bob_basis, bob_results, bob_key))
    /\ [][(pc \in {"qc_sift", "ev_sift"})
             => (/\ alice_basis' = alice_basis /\ bob_basis' = bob_basis
                 /\ alice_bits' = alice_bits
                 /\ bob_results' = bob_results)]_vars

C5_Witness ==
    /\ pc = "ev_end"
    /\ alice_basis[1] # bob_basis[1]
    /\ Len(bob_key) >= 1
    /\ bob_key # alice_key

\* C6: for argument sequences of any common length, 0 and 4 included, the
\* sifter returns, and returns as many bits as there are slots where the
\* two bases agree.
C6_SiftLengthAnyLength ==
    pc \in {"sift_returned", "sift_raised"} =>
        /\ pc = "sift_returned"
        /\ Len(alice_key) =
              Cardinality({q \in 1..Len(alice_bits) :
                              alice_basis[q] = bob_basis[q]})

\* C7: simulate_quantum_channel leaves every circuit of the list it was
\* handed as it was before the call.
C7_ChannelKeepsInput ==
    [][pc = "qc_channel" =>
          \A k \in 1..Len(message) : heap'[message[k]] = heap[message[k]]]_vars

\* The qubit state a circuit without measurement prepares.
Prepared(circ) == {cfg.q : cfg \in Exec(circ)}

\* C8: in every slot Eve's noise draw does not flip, the forwarded qubit is
\* the encoding of (Eve's result, Eve's basis): it is in the state
\* encode_message prepares for that pair, measuring it in Eve's basis can
\* only give Eve's result, and Bob gets Eve's result when he measures in
\* Eve's basis.
C8_EveResendConsistent ==
    /\ pc \in {"ev_bob_basis", "ev_measure"} =>
          \A q \in Slots :
              ~flips[q] =>
                  /\ Prepared(heap[message[q]]) =
                        Prepared(EncodeCircuit(eve_measurements[q],
                                               eavesdropper_basis[q]))
                  /\ RunShot(heap[message[q]]
                             \o MeasureInstrs(eavesdropper_basis[q]))
                        = {eve_measurements[q]}
    /\ EVMeasured =>
          \A q \in Slots :
              (~flips[q] /\ bob_basis[q] = eavesdropper_basis[q]) =>
                  bob_results[q] = eve_measurements[q]

C8_Witness ==
    /\ pc = "ev_sift"
    /\ \E q \in Slots :
          /\ ~flips[q]
          /\ eavesdropper_basis[q] = 1 /\ alice_basis[q] = 0
          /\ eve_measurements[q] # alice_bits[q]
          /\ bob_basis[q] = 1
          /\ bob_results[q] = eve_measurements[q]

\* C9: simulate_eavesdropping_detailed leaves every circuit it was handed
\* exactly as encode_message built it (no gate, no measurement), and every
\* slot of the list it returns holds a circuit created during the call.
C9_EveTouchesOnlyCopies ==
    [][pc = "ev_eavesdrop" =>
          \A k \in 1..Len(message) :
              /\ heap'[message[k]] = heap[message[k]]
              /\ heap'[message[k]] = EncodeCircuit(alice_bits[k], alice_basis[k])
              /\ NumMeasures(heap'[message[k]]) = 0
              /\ message'[k] \notin DOMAIN heap
              /\ message'[k] \in DOMAIN heap']_vars

C9_Witness ==
    /\ pc = "ev_bob_basis"
    /\ Len(heap) = 3 * NUM_QUBITS
    /\ \E q \in Slots : /\ eavesdropper_basis[q] # alice_basis[q]
                        /\ eve_measurements[q] # alice_bits[q]
                        /\ message[q] > NUM_QUBITS

\* C10: in the eavesdropping run, a slot where Eve's basis differs from
\* Alice's and Bob's basis equals Alice's can come out at Bob as 0 and as 1,
\* also when Eve's noise draw does not flip it; a run without any flip
\* whose sifted keys differ exists (the witness).
C10_EveDisturbanceBothOutcomes ==
    pc = "ev_measure" =>
        LET PR == PossibleResults(heap, message, bob_basis)
        IN  \A q \in Slots :
                (eavesdropper_basis[q] # alice_basis[q]
                 /\ bob_basis[q] = alice_basis[q]) => BothOutcomes(PR, q)

C10_Witness ==
    /\ pc = "ev_end"
    /\ \A q \in Slots : ~flips[q]
    /\ alice_key # bob_key
    /\ verdict = "different"

----------------------------------------------------------------------------
(* The sifter on its own, on argument sequences of any common length *)

SiftInit ==
    /\ pc = "sift_call"
    /\ rng = "unseeded"
    /\ choice = "none" /\ error_rate = 0 /\ i = 0
    /\ \E n \in 0..MaxLen :
          /\ alice_basis \in BitSeqs(n)
          /\ bob_basis \in BitSeqs(n)
          /\ alice_bits \in BitSeqs(n)
    /\ heap = <<>> /\ message = <<>> /\ flips = <<>>
    /\ eavesdropper_basis = <<>> /\ eve_measurements = <<>>
    /\ bob_results = <<>>
    /\ alice_key = <<>> /\ bob_key = <<>>
    /\ verdict = "none"

SiftCall ==
    /\ pc = "sift_call"
    /\ \E r \in {remove_garbage(alice_basis, bob_basis, alice_bits)} :
           /\ alice_key' = r.val
           /\ pc' = IF r.ok THEN "sift_returned" ELSE "sift_raised"
    /\ UNCHANGED <<rng, choice, error_rate, i, alice_bits, alice_basis, heap,
                   message, flips, eavesdropper_basis, eve_measurements,
                   bob_basis, bob_results, bob_key, verdict>>

SiftNext == SiftCall

SpecSift == SiftInit /\ [][SiftNext]_vars

----------------------------------------------------------------------------
(* Properties of whole runs and of the menu loop *)

\* C13: in every run of either mode the two keys handed to check_keys have
\* the same length, at most NUM_QUBITS, whatever the noise, Eve's choices
\* and the measurement outcomes are.
C13_KeysSameLength ==
    pc \in {"qc_end", "ev_end"} =>
        /\ Len(alice_key) = Len(bob_key)
        /\ Len(alice_key) <= NUM_QUBITS
        /\ Len(alice_key) =
              Cardinality({q \in Slots : alice_basis[q] = bob_basis[q]})

C13_Witness ==
    /\ pc = "ev_end"
    /\ \E q \in Slots : flips[q]
    /\ Len(alice_key) = Len(bob_key)
    /\ Len(alice_key) >= 1 /\ Len(alice_key) < NUM_QUBITS
    /\ alice_key # bob_key

\* The circuit objects of the eavesdropping run: those encode_message
\* made, Eve's copies, and the ones Eve prepared.
EveOriginals == {id \in DOMAIN heap : id <= NUM_QUBITS}
EvePrepared == {message[q] : q \in DOMAIN message}

\* C15: no circuit object is measured more than once in a run; in the
\* eavesdropping run Eve's measurement is on a copy, which is not in the
\* forwarded list, and Bob's single measurement is on the circuit Eve
\* prepared.
C15_MeasuredAtMostOnce ==
    /\ \A id \in DOMAIN heap : NumMeasures(heap[id]) <= 1
    /\ pc \in {"ev_bob_basis", "ev_measure", "ev_sift", "ev_end"} =>
          /\ EvePrepared \cap EveOriginals = {}
          /\ \A id \in EveOriginals : NumMeasures(heap[id]) = 0
          /\ \A id \in DOMAIN heap \ (EveOriginals \cup EvePrepared) :
                NumMeasures(heap[id]) = 1
          /\ \A id \in EvePrepared :
                NumMeasures(heap[id]) = IF EVMeasured THEN 1 ELSE 0
    /\ QCMeasured => \A q \in Slots : NumMeasures(heap[message[q]]) = 1

C15_Witness ==
    /\ pc = "ev_sift"
    /\ Cardinality({id \in DOMAIN heap : NumMeasures(heap[id]) = 1})
          = 2 * NUM_QUBITS
    /\ Cardinality({id \in DOMAIN heap : NumMeasures(heap[id]) = 0})
          = NUM_QUBITS

RunStages ==
    {"qc_alice_bits", "qc_alice_basis", "qc_encode", "qc_channel",
     "qc_bob_basis", "qc_measure", "qc_sift", "qc_end"}

EveStages ==
    {"ev_alice_bits", "ev_alice_basis", "ev_encode", "ev_eve_basis",
     "ev_eavesdrop", "ev_bob_basis", "ev_measure", "ev_sift", "ev_end"}

\* C16: at the prompt, "1", "2", "3" start the plain protocol with the
\* rates 0.0, 0.075, 0.2 and "4" starts the eavesdropping protocol; the
\* protocol is run num_iterations times and the prompt comes back; any
\* other answer but "5" runs nothing and prompts again; the loop is left
\* only on "5".
C16_MenuLoop ==
    /\ [](/\ pc \in RunStages =>
                /\ choice \in {"1", "2", "3"}
                /\ error_rate = (CASE choice = "1" -> 0
                                   [] choice = "2" -> 75
                                   [] choice = "3" -> 200)
                /\ i \in 1..num_iterations
          /\ pc \in EveStages => (choice = "4" /\ i \in 1..num_iterations)
          /\ pc = "exit" => choice = "5"
          /\ (pc = "prompt" /\ choice \in {"1", "2", "3", "4"}) =>
                i = num_iterations
          /\ pc # "crashed")
    /\ [][/\ pc = "prompt" =>
                /\ choice' \in {"1", "2", "3"} => (pc' = "qc_alice_bits" /\ i' = 1)
                /\ choice' = "4" => (pc' = "ev_alice_bits" /\ i' = 1)
                /\ choice' = "5" => pc' = "exit"
                /\ choice' = "other" => (pc' = "prompt" /\ Cleared')
          /\ pc = "qc_end" =>
                pc' = (IF i < num_iterations THEN "qc_alice_bits" ELSE "prompt")
          /\ pc = "ev_end" =>
                pc' = (IF i < num_iterations THEN "ev_alice_bits" ELSE "prompt")
          /\ pc' = "exit" => (pc = "prompt" /\ choice' = "5")]_vars

C16_Witness ==
    /\ pc = "qc_end"
    /\ choice = "2" /\ error_rate = 75
    /\ i = num_iterations
    /\ \E q \in Slots : flips[q]

\* C17: in the eavesdropping run, in a slot where Eve's basis is Alice's,
\* Eve's result is Alice's bit; if moreover Eve's draw does not flip the
\* slot and Bob's basis is Alice's, Bob's result is Alice's bit; a run
\* whose sifted slots are all of that kind ends with equal keys.
C17_GuessedBasisInvisible ==
    /\ pc \in {"ev_bob_basis", "ev_measure", "ev_sift", "ev_end"} =>
          \A q \in Slots :
              eavesdropper_basis[q] = alice_basis[q] =>
                  eve_measurements[q] = alice_bits[q]
    /\ EVMeasured =>
          \A q \in Slots :
              (/\ eavesdropper_basis[q] = alice_basis[q]
               /\ ~flips[q]
               /\ bob_basis[q] = alice_basis[q]) =>
                  bob_results[q] = alice_bits[q]
    /\ pc = "ev_end" =>
          ((\A q \in Slots :
               bob_basis[q] = alice_basis[q] =>
                   (eavesdropper_basis[q] = alice_basis[q] /\ ~flips[q]))
           => (alice_key = bob_key /\ verdict = "same"))

C17_Witness ==
    /\ pc = "ev_end"
    /\ verdict = "same"
    /\ \E q \in Slots :
          /\ eavesdropper_basis[q] = 1 /\ alice_basis[q] = 1
          /\ bob_basis[q] = 1 /\ ~flips[q]
          /\ alice_bits[q] = 1 /\ bob_results[q] = 1
    /\ \E q \in Slots : eavesdropper_basis[q] # alice_basis[q]

----------------------------------------------------------------------------
(* remove_garbage and check_keys on arguments of different lengths *)

SeqsUpTo(n) == UNION {BitSeqs(k) : k \in 0..n}

MismatchInit ==
    /\ rng = "unseeded"
    /\ choice = "none" /\ error_rate = 0 /\ i = 0
    /\ heap = <<>> /\ message = <<>> /\ flips = <<>>
    /\ eavesdropper_basis = <<>> /\ eve_measurements = <<>>
    /\ bob_results = <<>>
    /\ verdict = "none"
    /\ \/ /\ pc = "mm_sift_call"
          /\ alice_basis \in SeqsUpTo(MaxLen)
          /\ bob_basis \in SeqsUpTo(MaxLen)
          /\ alice_bits \in SeqsUpTo(MaxLen)
          /\ ~(Len(alice_basis) = Len(bob_basis)
               /\ Len(bob_basis) = Len(alice_bits))
          /\ alice_key = <<>> /\ bob_key = <<>>
       \/ /\ pc = "mm_check_call"
          /\ alice_basis = <<>> /\ bob_basis = <<>> /\ alice_bits = <<>>
          /\ alice_key \in SeqsUpTo(MaxLen)
          /\ bob_key \in SeqsUpTo(MaxLen)
          /\ Len(alice_key) # Len(bob_key)

\* remove_garbage(alice_basis, bob_basis, alice_bits), the result kept in
\* alice_key.
MM_Sift ==
    /\ pc = "mm_sift_call"
    /\ \E r \in {remove_garbage(alice_basis, bob_basis, alice_bits)} :
           /\ alice_key' = r.val
           /\ pc' = IF r.ok THEN "mm_sift_returned" ELSE "mm_sift_index_error"
    /\ UNCHANGED <<rng, choice, error_rate, i, alice_bits, alice_basis, heap,
                   message, flips, eavesdropper_basis, eve_measurements,
                   bob_basis, bob_results, bob_key, verdict>>

\* check_keys(alice_key, bob_key)
MM_Check ==
    /\ pc = "mm_check_call"
    /\ verdict' = check_keys(alice_key, bob_key)
    /\ pc' = "mm_check_returned"
    /\ UNCHANGED <<rng, choice, error_rate, i, alice_bits, alice_basis, heap,
                   message, flips, eavesdropper_basis, eve_measurements,
                   bob_basis, bob_results, alice_key, bob_key>>

MismatchNext == MM_Sift \/ MM_Check

SpecMismatch == MismatchInit /\ [][MismatchNext]_vars

\* C11: a call of remove_garbage or check_keys with sequences of different
\* lengths ends in a failure (the InvariantViolation): it does not return
\* a sifted key, and it does not report "same" or "different".
C11_MismatchRejected ==
    /\ pc # "mm_sift_returned"
    /\ pc # "mm_check_returned"

----------------------------------------------------------------------------
(* simulate_quantum_channel and simulate_eavesdropping_detailed on any rate *)

\* Rates in thousandths: below 0, the ends of [0, 1], inside, above 1.
Rates == {-100, 0, 200, 1000, 1500}

RateInit ==
    /\ pc = "rate_call"
    /\ rng = "unseeded"
    /\ choice = "none" /\ i = 0
    /\ error_rate \in Rates
    /\ alice_bits \in BitSeqs(NUM_QUBITS)
    /\ alice_basis \in BitSeqs(NUM_QUBITS)
    /\ \E r \in {encode_message(<<>>, alice_bits, alice_basis)} :
           heap = r.heap /\ message = r.message
    /\ eavesdropper_basis \in BitSeqs(NUM_QUBITS)
    /\ flips = <<>> /\ eve_measurements = <<>>
    /\ bob_basis = <<>> /\ bob_results = <<>>
    /\ alice_key = <<>> /\ bob_key = <<>>
    /\ verdict = "none"

Rate_Channel ==
    /\ pc = "rate_call"
    /\ \E draws \in [1..Len(message) -> DrawValues] :
        \E r \in {simulate_quantum_channel(heap, message, error_rate, draws)} :
            /\ heap' = r.heap
            /\ message' = r.message
            /\ flips' = [k \in 1..Len(message) |-> draws[k] < error_rate]
    /\ pc' = "rate_channel_returned"
    /\ UNCHANGED <<rng, choice, error_rate, i, alice_bits, alice_basis,
                   eavesdropper_basis, eve_measurements, bob_basis,
                   bob_results, alice_key, bob_key, verdict>>

Rate_Eve ==
    /\ pc = "rate_call"
    /\ \E outs \in BitSeqs(Len(message)),
          draws \in [1..Len(message) -> DrawValues] :
        \E r \in {simulate_eavesdropping_detailed(heap, message,
                     eavesdropper_basis, alice_basis, error_rate, outs, draws)} :
            /\ r.possible
            /\ heap' = r.heap
            /\ message' = r.message
            /\ eve_measurements' = r.results
            /\ flips' = [k \in 1..Len(message) |-> draws[k] < error_rate]
            /\ pc' = IF r.ok THEN "rate_eve_returned" ELSE "crashed"
    /\ UNCHANGED <<rng, choice, error_rate, i, alice_bits, alice_basis,
                   eavesdropper_basis, bob_basis, bob_results, alice_key,
                   bob_key, verdict>>

RateNext == Rate_Channel \/ Rate_Eve

SpecRate == RateInit /\ [][RateNext]_vars

\* C12: a rate outside [0, 1] handed to simulate_quantum_channel or to
\* simulate_eavesdropping_detailed is rejected: the call does not return
\* a message, neither one without any flip nor one with every slot flipped.
C12_RateRejected ==
    pc \in {"rate_channel_returned", "rate_eve_returned"} =>
        (error_rate >= 0 /\ error_rate <= 1000)

\* ---------------------------------------------------------------------
\* Two runs from the same state of numpy's global generator.
\*
\* generate_bits (randint) and the noise draws of simulate_quantum_channel
\* (np.random.random) read numpy's global generator.  The measurement
\* outcomes come from AerSimulator().run(..., shots=1): the program sets
\* no seed_simulator, so the simulator seeds itself anew for every run and
\* its outcomes do not depend on numpy's generator.  The generator is a
\* small linear congruential one here; its values are its successive
\* states.

RngModulus == 16

RngStep(x) == (5 * x + 3) % RngModulus

RECURSIVE RngStream(_, _)
RngStream(x, n) ==
    IF n = 0 THEN <<>>
    ELSE <<RngStep(x)>> \o RngStream(RngStep(x), n - 1)

\* randint(2): one value of the stream, reduced to a bit.
RngBit(x) == x \div (RngModulus \div 2)

\* np.random.random(): one value of the stream in [0, 1), in thousandths.
RngUniform(x) == (x * 1000) \div RngModulus

\* generate_bits(n) with the generator in state x: the n bits and the state
\* the generator is left in.
generate_bits(x, n) ==
    LET s == RngStream(x, n)
    IN [bits  |-> [k \in 1..n |-> RngBit(s[k])],
        state |-> IF n = 0 THEN x ELSE s[n]]

SeedRates == {0, 75, 200}

SeedInit ==
    /\ pc = "seed_first"
    /\ \E x \in 0..(RngModulus - 1) : rng = [seed |-> x, state |-> x]
    /\ error_rate \in SeedRates
    /\ choice = "none" /\ i = 0
    /\ alice_bits = <<>> /\ alice_basis = <<>>
    /\ heap = <<>> /\ message = <<>> /\ flips = <<>>
    /\ eavesdropper_basis = <<>> /\ eve_measurements = <<>>
    /\ bob_basis = <<>> /\ bob_results = <<>>
    /\ alice_key = <<>> /\ bob_key = <<>>
    /\ verdict = "none"

\* One pass of quantum_communication with the generator set to rng.seed
\* before it: bits, bases and noise draws are taken from the stream in the
\* order of the calls, the measurement outcomes from the simulator.
SeededRun(to) ==
    \E outs \in BitSeqs(NUM_QUBITS) :
      \E ab \in {generate_bits(rng.seed, NUM_QUBITS)} :
      \E aa \in {generate_bits(ab.state, NUM_QUBITS)} :
      \E enc \in {encode_message(<<>>, ab.bits, aa.bits)} :
      \E dr \in {RngStream(aa.state, NUM_QUBITS)} :
      \E draws \in {[k \in 1..NUM_QUBITS |-> RngUniform(dr[k])]} :
      \E ch \in {simulate_quantum_channel(enc.heap, enc.message,
                                          error_rate, draws)} :
      \E bb \in {generate_bits(dr[NUM_QUBITS], NUM_QUBITS)} :
      \E m \in {measure_message(ch.heap, ch.message, bb.bits, outs)} :
      \E ra \in {remove_garbage(aa.bits, bb.bits, ab.bits)},
         rb \in {remove_garbage(aa.bits, bb.bits, m.measurements)} :
          /\ enc.ok /\ m.ok /\ m.possible /\ ra.ok /\ rb.ok
          /\ alice_bits' = ab.bits
          /\ alice_basis' = aa.bits
          /\ flips' = [k \in 1..NUM_QUBITS |-> draws[k] < error_rate]
          /\ bob_basis' = bb.bits
          /\ heap' = m.heap
          /\ message' = ch.message
          /\ bob_results' = m.measurements
          /\ alice_key' = ra.val
          /\ bob_key' = rb.val
          /\ verdict' = check_keys(ra.val, rb.val)
          /\ rng' = [rng EXCEPT !.state = bb.state]
          /\ pc' = to
          /\ UNCHANGED <<choice, error_rate, i, eavesdropper_basis,
                         eve_measurements>>

Seed_FirstRun == pc = "seed_first" /\ SeededRun("seed_second")

Seed_SecondRun == pc = "seed_second" /\ SeededRun("seed_done")

SeedNext == Seed_FirstRun \/ Seed_SecondRun

SpecSeed == SeedInit /\ [][SeedNext]_vars

\* C14: the second of two runs started from the same state of numpy's
\* generator, with the same number of qubits and the same error rate,
\* produces the bits, the bases, the measurements and the sifted keys of
\* the first.
C14_SeededRunsAgree ==
    [][pc = "seed_second" =>
          /\ alice_bits' = alice_bits
          /\ alice_basis' = alice_basis
          /\ bob_basis' = bob_basis
          /\ bob_results' = bob_results
          /\ alice_key' = alice_key
          /\ bob_key' = bob_key]_vars

====
